---- MODULE Spec2Model ----
(***************************************************************************)
(* A model of gen_cmake.py (class CMakeGenerator): the import classifier   *)
(* check_import_method, the location resolver resolve_dependency and the   *)
(* recursive, memoized graph builder process_project / process_solution.   *)
(*                                                                         *)
(* File and directory names are sequences of tokens: a token is one        *)
(* character ("l", "1", ".", "-") or one of the multi-character words the  *)
(* code looks for ("win" for the platform keywords of the clean-name       *)
(* regex, "config.cmake" for the suffix of a package config file).         *)
(* Absolute directories of the graph part are named by short identifiers.  *)
(***************************************************************************)
EXTENDS Integers, Sequences, FiniteSets, TLC

VARIABLES
    tp,                 \* classifier run: the directory handed to check_import_method
    outcome,            \* classifier run: what check_import_method returned
    query,              \* resolver run: the (dep_path, project_dir) handed to resolve_dependency
    resolved,           \* resolver run: what resolve_dependency returned
    cwd,                \* the process's current working directory
    mode,               \* entry point of the run: project | solution
    todo,               \* the driver's remaining process_project calls
    call,               \* process_project call in flight (its project_dir)
    ret,                \* value returned by the call that just ended
    stack,              \* active process_project bodies, innermost last
    processed_projects, \* self.processed_projects
    manifest,           \* content of each Project.json, fixed when first read
    cmake_files,        \* CMakeLists.txt written per project directory
    status,             \* running | done | exit1 (sys.exit(1)) | crash (exception)
    diag,               \* the diagnostic printed or the exception raised
    bodyCount,          \* per manifest: executions of the body of process_project
    resolveCalls        \* per manifest: resolve_dependency calls made by its body

vars == <<tp, outcome, query, resolved, cwd, mode, todo, call, ret, stack, processed_projects, manifest,
          cmake_files, status, diag, bodyCount, resolveCalls>>

graphVars == <<cwd, mode, todo, call, ret, stack, processed_projects, manifest,
               cmake_files, status, diag, bodyCount, resolveCalls>>

None == "None"

(***************************************************************************)
(* Bounds of the model.                                                    *)
(***************************************************************************)
MaxFiles == 2        \* files below a classified directory
MaxTreeDepth == 7    \* deepest directory level below a classified directory
MaxDeps == 2         \* dependencies declared by one manifest
MaxCallDepth == 4    \* nested process_project calls the interpreter's stack holds

(***************************************************************************)
(* Small helpers on sequences.                                             *)
(***************************************************************************)
MinOf(S) == CHOOSE x \in S : \A y \in S : x <= y

SeqsUpTo(S, n) == UNION { [1..k -> S] : k \in 0..n }

Range(s) == { s[i] : i \in DOMAIN s }

\* The subsets of S of at most n elements.
RECURSIVE SetsUpTo(_, _)
SetsUpTo(S, n) ==
    IF n = 0 THEN {{}}
    ELSE LET prev == SetsUpTo(S, n - 1)
         IN  prev \cup { T \cup {x} : T \in prev, x \in S }

\* Python's  a in b  on strings: a occurs in b as a contiguous run.
Contains(b, a) ==
    \E i \in 0..(Len(b) - Len(a)) : SubSeq(b, i + 1, i + Len(a)) = a

(***************************************************************************)
(* check_import_method: names.                                             *)
(***************************************************************************)
Digits == {"1"}

Keywords == {"win"}

Separators == {"-", "_"}

LowerTok(t) ==
    CASE t = "L" -> "l"
      [] t = "Config.cmake" -> "config.cmake"
      [] OTHER -> t

\* str.lower()
Lower(s) == [i \in DOMAIN s |-> LowerTok(s[i])]

\* Whether  [-_]?(?:vc|gcc|clang|win|linux|mac)?\d+  matches at position i
\* (re.IGNORECASE); the rest of the pattern, (?:[\.-]\d+)*.*$, matches anything.
RegexMatchesAt(s, i) ==
    LET l == Lower(s)
        j == IF i <= Len(l) /\ l[i] \in Separators THEN i + 1 ELSE i
        k == IF j <= Len(l) /\ l[j] \in Keywords THEN j + 1 ELSE j
    IN  k <= Len(l) /\ l[k] \in Digits

\* re.sub(pattern, '', tp_name) and the fallback to tp_name when nothing is left
CleanName(tp_name) ==
    LET hits == { i \in 1..Len(tp_name) : RegexMatchesAt(tp_name, i) }
        cut == IF hits = {} THEN tp_name ELSE SubSeq(tp_name, 1, MinOf(hits) - 1)
    IN  IF cut = <<>> THEN tp_name ELSE cut

\* any(c.isdigit() for c in tp_name) and '.' in tp_name
IsVersionDir(tp_name) ==
    /\ \E i \in DOMAIN tp_name : tp_name[i] \in Digits
    /\ \E i \in DOMAIN tp_name : tp_name[i] = "."

ConfigSuffix == <<"config.cmake">>

DashConfigSuffix == <<"-", "config.cmake">>

IgnoreConfigs == { <<"ctest", "config.cmake">>, <<"cpack", "config.cmake">> }

\* f_lower.endswith("config.cmake") or f_lower.endswith("-config.cmake")
EndsWithConfig(f) ==
    Len(f) >= 1 /\ Lower(f)[Len(f)] = "config.cmake"

\* str.rstrip("-")
RECURSIVE RStripDash(_)
RStripDash(s) ==
    IF s # <<>> /\ s[Len(s)] = "-" THEN RStripDash(SubSeq(s, 1, Len(s) - 1)) ELSE s

\* f[:f_lower.find("config.cmake")].rstrip("-"), tp_name when that is empty
PkgNameOf(f, tp_name) ==
    LET at == MinOf({ i \in DOMAIN f : Lower(f)[i] = "config.cmake" })
        stem == RStripDash(SubSeq(f, 1, at - 1))
    IN  IF stem = <<>> THEN tp_name ELSE stem

\* The if/elif chain that scores one candidate file name.
Score(f, tp_name, parent_name) ==
    LET f_lower == Lower(f)
        clean == Lower(CleanName(tp_name))
        raw == Lower(tp_name)
        parent == Lower(parent_name)
    IN  IF f_lower = clean \o ConfigSuffix \/ f_lower = clean \o DashConfigSuffix THEN 10
        ELSE IF f_lower = raw \o ConfigSuffix \/ f_lower = raw \o DashConfigSuffix THEN 9
        ELSE IF Contains(f_lower, clean) THEN 7
        ELSE IF Contains(f_lower, raw) THEN 5
        ELSE IF IsVersionDir(tp_name)
                /\ (f_lower = parent \o ConfigSuffix \/ Contains(f_lower, parent)) THEN 8
        ELSE 0

DepthLimit == 5

\* os.walk(tp_path), top-down: the files of the directory at this depth, then the
\* directories below it unless  depth > 5  emptied dirs.  The tree is a chain of
\* directories, one per depth, MaxTreeDepth levels deep.
RECURSIVE WalkNoPrune(_, _)
WalkNoPrune(files, depth) ==
    IF depth > MaxTreeDepth THEN {}
    ELSE { f \in files : f.depth = depth } \cup WalkNoPrune(files, depth + 1)

RECURSIVE Walk(_, _)
Walk(files, depth) ==
    IF depth > MaxTreeDepth THEN {}
    ELSE { f \in files : f.depth = depth }
         \cup (IF depth > DepthLimit THEN {} ELSE Walk(files, depth + 1))

\* candidates: one entry per visited file that is a package config file
Candidates(d) ==
    { [name |-> PkgNameOf(f.name, d.tp_name), root |-> f.depth,
       score |-> Score(f.name, d.tp_name, d.parent_name), file |-> f.name] :
        f \in { g \in Walk(d.files, 0) :
                  Lower(g.name) \notin IgnoreConfigs /\ EndsWithConfig(g.name) } }

\* max(candidates, key=score): the first of the highest-scoring candidates in walk
\* order. A directory's files come in no specified order, so any of the highest
\* scoring candidates of the shallowest directory holding one may be first.
BestCandidates(cands) ==
    LET top == { c \in cands : \A o \in cands : o.score <= c.score }
    IN  { c \in top : \A o \in top : c.root <= o.root }

\* A candidate is wanted whatever its score.
HasScoredCandidates(d) == \E c \in Candidates(d) : c.score > 0

\* if candidates:
HasCandidates(d) == Candidates(d) # {}

\* The results check_import_method(tp_path) can return: (method, location, pkg_name).
\* location is the depth of the directory found below tp_path, 0 for tp_path itself.
check_import_method(d) ==
    IF d.hasProjectJson
    THEN { [method |-> "PROJECT", location |-> 0, pkg_name |-> d.tp_name] }
    ELSE IF d.hasFind
    THEN { [method |-> "MODULE", location |-> 0, pkg_name |-> d.tp_name] }
    ELSE IF HasCandidates(d)
    THEN { [method |-> "CONFIG", location |-> best.root, pkg_name |-> best.name] :
             best \in BestCandidates(Candidates(d)) }
    ELSE IF d.hasCMakeLists
    THEN { [method |-> "SOURCE", location |-> 0, pkg_name |-> d.tp_name] }
    ELSE IF d.hasInclude /\ d.hasLib
    THEN { [method |-> "ROOT", location |-> 0, pkg_name |-> CleanName(d.tp_name)] }
    ELSE { [method |-> "UNKNOWN", location |-> None, pkg_name |-> d.tp_name] }

(***************************************************************************)
(* The directories the classifier is run on.                               *)
(***************************************************************************)
NamePairs ==
    { << <<"l", "1", ".", "1">>, <<"m", "l">> >>,
      << <<"1", ".", "1">>, <<"m", "l">> >>,
      << <<"l", "-", "win", "1">>, <<"x">> >> }

FileNames ==
    { <<"L", "Config.cmake">>,
      <<"l", "-", "config.cmake">>,
      <<"m", "l", "config.cmake">>,
      <<"m", "l", "x", "config.cmake">>,
      <<"config.cmake">>,
      <<"ctest", "config.cmake">>,
      <<"l", "-", "win", "1", "config.cmake">>,
      <<"readme">> }

FileDepths == {0, DepthLimit + 1, MaxTreeDepth}

AllFiles == [name : FileNames, depth : FileDepths]

NotRun == [method |-> "NotRun"]

NoRet == [returned |-> FALSE]

NoDiag == [kind |-> "none"]

NoQuery == [dep_path |-> <<>>, project_dir |-> "None"]

NotResolved == [done |-> FALSE]

\* The directories with at most n files below them.
TestDirs(n) ==
    { [tp_name |-> np[1], parent_name |-> np[2], hasProjectJson |-> m[1],
       hasFind |-> m[2], hasCMakeLists |-> m[3], hasInclude |-> m[4],
       hasLib |-> m[5], files |-> fs, dlls |-> {}] :
        np \in NamePairs, m \in [1..5 -> BOOLEAN], fs \in SetsUpTo(AllFiles, n) }

GraphIdle ==
    /\ cwd = None
    /\ mode = None
    /\ todo = <<>>
    /\ call = None
    /\ ret = NoRet
    /\ stack = <<>>
    /\ processed_projects = <<>>
    /\ manifest = <<>>
    /\ cmake_files = <<>>
    /\ status = "idle"
    /\ diag = NoDiag
    /\ bodyCount = <<>>
    /\ resolveCalls = <<>>

InitClassify ==
    /\ tp \in TestDirs(MaxFiles)
    /\ outcome = NotRun
    /\ query = NoQuery
    /\ resolved = NotResolved
    /\ GraphIdle

\* One call of check_import_method on the directory under test.
Classify ==
    /\ status = "idle"
    /\ outcome = NotRun
    /\ outcome' \in check_import_method(tp)
    /\ UNCHANGED <<tp, query, resolved, graphVars>>

NextClassify == Classify

SpecClassify == InitClassify /\ [][NextClassify]_vars

(***************************************************************************)
(* Claims about check_import_method, checked under SpecClassify.           *)
(***************************************************************************)
\* A file the scan can reach that is a package config file.
ScanFindsConfig(d) ==
    \E f \in Walk(d.files, 0) :
        EndsWithConfig(f.name) /\ Lower(f.name) \notin IgnoreConfigs

\* The score table as claimed: the highest-valued rule that applies, the parent
\* name counting only as an exact match.
TableScore(f, tp_name, parent_name) ==
    LET f_lower == Lower(f)
        clean == Lower(CleanName(tp_name))
        raw == Lower(tp_name)
        parent == Lower(parent_name)
    IN  IF f_lower = clean \o ConfigSuffix \/ f_lower = clean \o DashConfigSuffix THEN 10
        ELSE IF f_lower = raw \o ConfigSuffix \/ f_lower = raw \o DashConfigSuffix THEN 9
        ELSE IF IsVersionDir(tp_name)
                /\ (f_lower = parent \o ConfigSuffix \/ f_lower = parent \o DashConfigSuffix)
             THEN 8
        ELSE IF Contains(f_lower, clean) THEN 7
        ELSE IF Contains(f_lower, raw) THEN 5
        ELSE 0

PriorityMethod(d) ==
    IF d.hasProjectJson THEN "PROJECT"
    ELSE IF d.hasFind THEN "MODULE"
    ELSE IF ScanFindsConfig(d) THEN "CONFIG"
    ELSE IF d.hasCMakeLists THEN "SOURCE"
    ELSE IF d.hasInclude /\ d.hasLib THEN "ROOT"
    ELSE "UNKNOWN"

\* C6: check_import_method returns the first applicable strategy in the priority
\* Project > Module > Config > Source > Root > Unknown for every combination of
\* markers; a config candidate of score 0 still gives CONFIG.
C6_FirstApplicableStrategy ==
    outcome # NotRun => outcome.method = PriorityMethod(tp)

\* C6 witness: a directory with CMakeLists.txt, include/ and lib/ whose only config
\* candidates score 0 was classified CONFIG.
C6_Witness ==
    /\ outcome # NotRun
    /\ outcome.method = "CONFIG"
    /\ tp.hasCMakeLists /\ tp.hasInclude /\ tp.hasLib
    /\ \A c \in Candidates(tp) : c.score = 0

\* C7 (as claimed): every candidate has the score of the highest-valued rule of the
\* table 10 > 9 > 8 (exact parent name, version dir) > 7 > 5 > 0 that applies to
\* it, and the candidate returned has the maximum of these scores.
C7_ScoreIsHighestRule ==
    (outcome # NotRun /\ outcome.method = "CONFIG") =>
        /\ \A c \in Candidates(tp) :
              c.score = TableScore(c.file, tp.tp_name, tp.parent_name)
        /\ \E c \in Candidates(tp) :
              /\ c.root = outcome.location /\ c.name = outcome.pkg_name
              /\ \A o \in Candidates(tp) :
                    TableScore(o.file, tp.tp_name, tp.parent_name)
                        <= TableScore(c.file, tp.tp_name, tp.parent_name)

\* C8 (as claimed): a CONFIG classification is never decided by a file that lies
\* more than 5 levels below the dependency root.
C8_ScanDepthAtMostFive ==
    (outcome # NotRun /\ outcome.method = "CONFIG") => outcome.location <= DepthLimit

\* C8 (amended): the scan reads the files of the directories of depth <= 6 and of no
\* deeper one: a CONFIG result lies at depth <= 6, and a directory whose config
\* files all lie deeper than 6 is not classified CONFIG.
C8_ScanDepthAtMostSix ==
    outcome # NotRun =>
        /\ outcome.method = "CONFIG" => outcome.location <= DepthLimit + 1
        /\ (\A f \in tp.files : EndsWithConfig(f.name) => f.depth > DepthLimit + 1)
               => outcome.method # "CONFIG"

\* C8 witness: the result is a config file at depth 6 although a better-scoring
\* config file lies deeper.
C8_Witness ==
    /\ outcome # NotRun
    /\ outcome.method = "CONFIG"
    /\ outcome.location = DepthLimit + 1
    /\ \E f \in tp.files :
          /\ f.depth > DepthLimit + 1
          /\ EndsWithConfig(f.name)
          /\ \A c \in Candidates(tp) :
                Score(f.name, tp.tp_name, tp.parent_name) > c.score

(***************************************************************************)
(* The file system of a graph run.  A path is the sequence of its          *)
(* components ("../B" is <<"..", "B">>, a leading "" marks an absolute     *)
(* path, a trailing "" a trailing separator); a directory or file is       *)
(* named by an identifier that stands for its absolute, normalized path.   *)
(*                                                                         *)
(*   /ws/proj/{A,B}, /ws/libs/C  projects, each with a Project.json         *)
(*   /ws/proj/notes              a file                                     *)
(*   /ws/3rdparty/{mod,cfg,src,root,unk}   third-party directories          *)
(*   /ws/3rdparty/file           a file                                     *)
(*   /ws/proj/A/dup, /ws/3rdparty/dup      directories of the same name     *)
(*   /ws/proj/A/shadow           a file                                     *)
(*   /ws/3rdparty/shadow         a directory                                *)
(*   /home/u                     a directory outside the workspace          *)
(***************************************************************************)
Projects == {"A", "B", "C"}

ThirdParty == {"mod", "cfg", "src", "root", "unk", "dup", "shadow"}

Directories ==
    Projects \cup ThirdParty \cup {"rootfs", "ws", "proj", "libs", "tp", "home", "u", "Adup"}

Child(node, c) ==
    CASE node = "rootfs" /\ c = "ws" -> "ws"
      [] node = "rootfs" /\ c = "home" -> "home"
      [] node = "home" /\ c = "u" -> "u"
      [] node = "ws" /\ c = "proj" -> "proj"
      [] node = "ws" /\ c = "3rdparty" -> "tp"
      [] node = "ws" /\ c = "libs" -> "libs"
      [] node = "proj" /\ c \in {"A", "B"} -> c
      [] node = "libs" /\ c = "C" -> "C"
      [] node = "A" /\ c = "dup" -> "Adup"
      [] node = "A" /\ c = "shadow" -> "Ashadow"
      [] node = "proj" /\ c = "notes" -> "notes"
      [] node = "tp" /\ c \in ThirdParty -> c
      [] node = "tp" /\ c = "file" -> "tpfile"
      [] OTHER -> None

Parent(node) ==
    CASE node \in {"A", "B", "notes"} -> "proj"
      [] node = "C" -> "libs"
      [] node \in {"Adup", "Ashadow"} -> "A"
      [] node \in ThirdParty \cup {"tpfile"} -> "tp"
      [] node \in {"proj", "libs", "tp"} -> "ws"
      [] node = "u" -> "home"
      [] node \in {"ws", "home", "rootfs"} -> "rootfs"
      [] OTHER -> None

\* os.listdir
Listing(node) ==
    CASE node = "rootfs" -> {"ws", "home"}
      [] node = "home" -> {"u"}
      [] node = "ws" -> {"proj", "libs", "3rdparty"}
      [] node = "proj" -> {"A", "B", "notes"}
      [] node = "libs" -> {"C"}
      [] node = "A" -> {"dup", "shadow"}
      [] node = "tp" -> ThirdParty \cup {"file"}
      [] OTHER -> {}

\* os.path.isabs
IsAbs(path) == path # <<>> /\ path[1] = ""

\* The entry a path names when followed from a directory, None when there is none.
RECURSIVE Lookup(_, _)
Lookup(node, path) ==
    IF node = None \/ path = <<>> THEN node
    ELSE LET c == Head(path)
         IN  Lookup(IF c = "" \/ c = "." THEN node
                    ELSE IF c = ".." THEN Parent(node)
                    ELSE Child(node, c),
                    Tail(path))

\* os.path.join(base, path) followed by the file-system lookup
Locate(base, path) == IF IsAbs(path) THEN Lookup("rootfs", path) ELSE Lookup(base, path)

\* os.path.exists / os.path.isdir of an entry
Exists(node) == node # None

IsDir(node) == node \in Directories

\* os.path.normpath: drops empty and "." components, folds "x/.." and yields "."
\* for the empty path.
RECURSIVE NormInto(_, _)
NormInto(done, rest) ==
    IF rest = <<>> THEN done
    ELSE LET c == Head(rest)
             top == IF done = <<>> THEN None ELSE done[Len(done)]
         IN  IF c = "." \/ (c = "" /\ done # <<>>) THEN NormInto(done, Tail(rest))
             ELSE IF c = ".." /\ top = "" /\ Len(done) = 1 THEN NormInto(done, Tail(rest))
             ELSE IF c = ".." /\ done # <<>> /\ top # ".."
                  THEN NormInto(SubSeq(done, 1, Len(done) - 1), Tail(rest))
             ELSE NormInto(Append(done, c), Tail(rest))

normpath(path) ==
    LET n == NormInto(<<>>, path) IN IF n = <<>> THEN <<".">> ELSE n

\* The environment of the run.  M is set and U is not; the values of N2, N3, N4, P
\* and Q hold placeholders themselves (N4 -> ${N3} -> ${N2} -> ${M} -> mod), and R
\* is the path ../B.
EnvNames == {"M", "N2", "N3", "N4", "P", "Q", "R"}

EnvValue(name) ==
    CASE name = "M" -> <<"mod">>
      [] name = "N2" -> <<"${M}">>
      [] name = "N3" -> <<"${N2}">>
      [] name = "N4" -> <<"${N3}">>
      [] name = "P" -> <<"%M%">>
      [] name = "Q" -> <<"${M}">>
      [] name = "R" -> <<"..", "B">>
      [] OTHER -> <<>>

\* The name in a component that is a ${NAME} placeholder, None for any other.
DollarName(c) ==
    CASE c = "${M}" -> "M" [] c = "${U}" -> "U" [] c = "${N2}" -> "N2"
      [] c = "${N3}" -> "N3" [] c = "${N4}" -> "N4" [] c = "${P}" -> "P"
      [] c = "${R}" -> "R" [] OTHER -> None

\* The name in a component that is a %NAME% placeholder, None for any other.
PercentName(c) ==
    CASE c = "%M%" -> "M" [] c = "%U%" -> "U" [] c = "%Q%" -> "Q" [] OTHER -> None

RECURSIVE Flatten(_)
Flatten(ss) == IF ss = <<>> THEN <<>> ELSE Head(ss) \o Flatten(Tail(ss))

\* os.environ.get(name, "")
EnvGet(name) == IF name \in EnvNames THEN EnvValue(name) ELSE <<>>

\* expand_env_vars: one pass for ${NAME}, then one pass for %NAME%
expand_env_vars(path) ==
    LET p1 == Flatten([i \in DOMAIN path |->
                  IF DollarName(path[i]) # None THEN EnvGet(DollarName(path[i]))
                  ELSE <<path[i]>>])
    IN  Flatten([i \in DOMAIN p1 |->
                  IF PercentName(p1[i]) # None THEN EnvGet(PercentName(p1[i]))
                  ELSE <<p1[i]>>])

\* What lies in each directory, as check_import_method and the DLL probe see it.
PlainDir(name, parent) ==
    [tp_name |-> <<name>>, parent_name |-> <<parent>>, hasProjectJson |-> FALSE,
     hasFind |-> FALSE, hasCMakeLists |-> FALSE, hasInclude |-> FALSE,
     hasLib |-> FALSE, files |-> {}, dlls |-> {}]

DirOf(node) ==
    CASE node = "A" -> [PlainDir("A", "proj") EXCEPT !.hasProjectJson = TRUE]
      [] node = "B" -> [PlainDir("B", "proj") EXCEPT !.hasProjectJson = TRUE,
                                                     !.dlls = {"bin"}]
      [] node = "C" -> [PlainDir("C", "libs") EXCEPT !.hasProjectJson = TRUE,
                                                     !.hasCMakeLists = TRUE]
      [] node = "mod" -> [PlainDir("mod", "3rdparty") EXCEPT !.hasFind = TRUE,
                                                             !.dlls = {"bin", "lib"}]
      [] node = "cfg" -> [PlainDir("cfg", "3rdparty") EXCEPT
                            !.files = {[name |-> <<"Pkg", "Config.cmake">>, depth |-> 1]},
                            !.dlls = {"win64/vc14/bin", "lib"}]
      [] node = "src" -> [PlainDir("src", "3rdparty") EXCEPT !.hasCMakeLists = TRUE]
      [] node = "root" -> [PlainDir("root", "3rdparty") EXCEPT !.hasInclude = TRUE,
                                                               !.hasLib = TRUE,
                                                               !.dlls = {"lib"}]
      [] node = "unk" -> [PlainDir("unk", "3rdparty") EXCEPT !.hasLib = TRUE,
                                                             !.dlls = {"lib"}]
      [] node = "dup" -> [PlainDir("dup", "3rdparty") EXCEPT !.hasFind = TRUE]
      [] node = "shadow" -> [PlainDir("shadow", "3rdparty") EXCEPT !.hasCMakeLists = TRUE]
      [] node = "Adup" -> [PlainDir("dup", "A") EXCEPT !.hasCMakeLists = TRUE]
      [] OTHER -> PlainDir(node, "")

\* self.root_dir and self.third_party_dir
RootDir == "ws"

ThirdPartyDir == Child(RootDir, "3rdparty")

\* A project-relative match that is not a directory is passed over for the
\* third-party root.
resolve_falling_through(dep_path, project_dir) ==
    LET p == Locate(project_dir, dep_path)
        q == Locate(ThirdPartyDir, dep_path)
        resolved_path == IF IsAbs(dep_path) THEN Locate("rootfs", dep_path)
                         ELSE IF IsDir(p) THEN p ELSE q
    IN  IF ~IsDir(resolved_path) THEN { <<None, None, None>> }
        ELSE { <<resolved_path, r.method, r.location, r.pkg_name>> :
                 r \in check_import_method(DirOf(resolved_path)) }

\* resolve_dependency: the tuples it can return.  A failure returns three values,
\* a success four.
resolve_dependency(dep_path, project_dir) ==
    LET p == Locate(project_dir, dep_path)
        q == Locate(ThirdPartyDir, dep_path)
        resolved_path == IF IsAbs(dep_path) THEN Locate("rootfs", dep_path)
                         ELSE IF Exists(p) THEN p ELSE q
    IN  IF ~IsAbs(dep_path) /\ ~Exists(p) /\ ~Exists(q) THEN { <<None, None, None>> }
        ELSE IF ~IsDir(resolved_path) THEN { <<None, None, None>> }
        ELSE { <<resolved_path, r.method, r.location, r.pkg_name>> :
                 r \in check_import_method(DirOf(resolved_path)) }

(***************************************************************************)
(* resolve_dependency on its own: one call on a normalized reference, as   *)
(* process_project hands it over, for a requesting project.                *)
(***************************************************************************)
MaxPathLen == 3      \* components of a reference given to resolve_dependency

PathParts == {"..", "ws", "3rdparty", "dup", "shadow", "mod", "missing"}

\* The references of at most n components, relative and absolute, normalized.
References(n) ==
    LET relative == SeqsUpTo(PathParts, n) \ {<<>>}
    IN  { normpath(r) : r \in relative } \cup { normpath(<<"">> \o r) : r \in relative }

InitResolve ==
    /\ tp = PlainDir("None", "None")
    /\ outcome = NotRun
    /\ query \in [dep_path : References(MaxPathLen), project_dir : Projects]
    /\ resolved = NotResolved
    /\ GraphIdle

\* One call of resolve_dependency.
Resolve ==
    /\ status = "idle"
    /\ query # NoQuery
    /\ resolved = NotResolved
    /\ \E r \in resolve_dependency(query.dep_path, query.project_dir) :
          resolved' = [done |-> TRUE, result |-> r]
    /\ UNCHANGED <<tp, outcome, query, graphVars>>

NextResolve == Resolve

SpecResolve == InitResolve /\ [][NextResolve]_vars

\* C13: resolve_dependency tries the bases in the order absolute, project directory,
\* third-party root, and the first that exists is final: an absolute reference is
\* taken as it is; a relative one that exists below the project directory resolves
\* there, also when it exists below the third-party root; the third-party root is
\* used only when nothing exists below the project directory; and an entry found
\* that is not a directory fails without trying a later base.
C13_FirstMatchWins ==
    resolved # NotResolved =>
        LET d == query.dep_path
            at_root == Lookup("rootfs", d)
            in_project == Lookup(query.project_dir, d)
            in_third_party == Lookup(ThirdPartyDir, d)
            found == resolved.result[1]
            first == IF IsAbs(d) THEN at_root
                     ELSE IF Exists(in_project) THEN in_project
                     ELSE in_third_party
        IN  /\ IsDir(first) => found = first
            /\ ~IsDir(first) => found = None
            /\ (~IsAbs(d) /\ found # None /\ found = in_third_party /\ found # in_project)
                   => ~Exists(in_project)

\* C13 witness: "shadow" asked for by A: the file A/shadow is the first match, so
\* the call fails although the directory 3rdparty/shadow exists.
C13_Witness ==
    /\ resolved # NotResolved
    /\ query = [dep_path |-> <<"shadow">>, project_dir |-> "A"]
    /\ Exists(Lookup("A", <<"shadow">>)) /\ ~IsDir(Lookup("A", <<"shadow">>))
    /\ IsDir(Lookup(ThirdPartyDir, <<"shadow">>))
    /\ resolved.result[1] = None

\* The DLL probe: bin, win64/vc14/bin, lib; the first that holds a DLL.
potential_bin_dirs == <<"bin", "win64/vc14/bin", "lib">>

ProbeDlls(node) ==
    LET hits == { k \in DOMAIN potential_bin_dirs : potential_bin_dirs[k] \in DirOf(node).dlls }
    IN  IF hits = {} THEN <<>> ELSE << <<node, potential_bin_dirs[MinOf(hits)]>> >>

(***************************************************************************)
(* Manifests.                                                              *)
(***************************************************************************)
\* The dependency strings the manifest of the input project may declare.
RefsOfA ==
    { <<"..", "B">>, <<"..", "..", "libs", "C">>, <<"mod">>, <<"unk">>,
      <<"missing">>, <<"..", "*">> }

\* The dependency lists a manifest of each project may declare.  No manifest names
\* a project that comes before it, so the manifest graph is acyclic.
DepsOf(p) ==
    CASE p = "A" -> SeqsUpTo(RefsOfA, MaxDeps)
      [] p = "B" -> { <<>>,
                      << <<"..", "..", "libs", "C">> >>,
                      << <<"cfg">>, <<"", "ws", "libs", "C">> >>,
                      << <<"..", "B", "">>, <<"src">> >>,
                      << <<"file">> >> }
      [] p = "C" -> { << <<"root">> >>,
                      << <<"%U%">>, <<"${M}">> >>,
                      << <<"", "nowhere">> >> }
      [] OTHER -> {}

Lib == [hasName |-> TRUE, compile_lib |-> TRUE, compile_exec |-> FALSE, entry_file |-> FALSE]

Exe == [hasName |-> TRUE, compile_lib |-> FALSE, compile_exec |-> TRUE, entry_file |-> TRUE]

NoCompile ==
    [hasName |-> TRUE, compile_lib |-> FALSE, compile_exec |-> FALSE, entry_file |-> FALSE]

ExeNoEntry ==
    [hasName |-> TRUE, compile_lib |-> FALSE, compile_exec |-> TRUE, entry_file |-> FALSE]

NoName ==
    [hasName |-> FALSE, compile_lib |-> FALSE, compile_exec |-> FALSE, entry_file |-> FALSE]

\* name present, library / executable compile flags, entry_file present
ShapesOf(p) ==
    CASE p = "A" -> {Exe, ExeNoEntry, NoName}
      [] p = "B" -> {Lib, NoCompile, ExeNoEntry, NoName}
      [] p = "C" -> {Lib, ExeNoEntry}
      [] OTHER -> {}

ManifestsOf(p) ==
    { [hasName |-> sh.hasName, compile_lib |-> sh.compile_lib,
       compile_exec |-> sh.compile_exec, entry_file |-> sh.entry_file,
       dependencies |-> deps] :
        sh \in ShapesOf(p), deps \in DepsOf(p) }

NoTarget == <<>>

\* primary_target: "<name>Lib" for a library, the name for an executable, else None
PrimaryTarget(p, data) ==
    IF data.compile_lib THEN <<p, "Lib">>
    ELSE IF data.compile_exec THEN <<p>>
    ELSE NoTarget

\* The orders in which os.listdir may give the members of a set.
Orders(S) == { s \in [1..Cardinality(S) -> S] : Range(s) = S }

\* The wildcard pre-processing of one raw dependency: the entries it adds to all_deps.
ExpandRawDep(raw_dep, wd) ==
    LET dep_expanded == expand_env_vars(raw_dep)
        norm_dep == normpath(dep_expanded)
        base_dir == SubSeq(norm_dep, 1, Len(norm_dep) - 1)
        base == IF base_dir = <<>> THEN None ELSE Locate(wd, base_dir)
    IN  IF norm_dep[Len(norm_dep)] = "*"
        THEN IF IsDir(base)
             THEN { [i \in DOMAIN o |-> Append(base_dir, o[i])] :
                      o \in Orders({ e \in Listing(base) : IsDir(Child(base, e)) }) }
             ELSE { <<>> }
        ELSE { <<dep_expanded>> }

\* all_deps after the pre-processing loop, for every order os.listdir may use
RECURSIVE AllDeps(_, _)
AllDeps(raw_deps, wd) ==
    IF raw_deps = <<>> THEN { <<>> }
    ELSE { h \o t : h \in ExpandRawDep(Head(raw_deps), wd),
                    t \in AllDeps(Tail(raw_deps), wd) }

NoPending == [method |-> "None"]

Top == stack[Len(stack)]

SetTop(f) == [stack EXCEPT ![Len(stack)] = f]

Inc(counter, p) ==
    IF p \in DOMAIN counter THEN [counter EXCEPT ![p] = @ + 1] ELSE (p :> 1) @@ counter

\* The cache is never consulted.
NeverProcessed(p) == FALSE

\* if project_json_path in self.processed_projects
IsProcessed(p) == p \in DOMAIN processed_projects

(***************************************************************************)
(* The driver: main() calls process_project on the input project, or       *)
(* process_solution, which calls it on every project of the solution.      *)
(***************************************************************************)
Solutions == { <<"B", "A">>, <<"mod">> }

\* Where the tool is started: in the input project's directory, or elsewhere.
WorkingDirs == {"A", "u"}

Init ==
    /\ tp = PlainDir("None", "None")
    /\ outcome = NotRun
    /\ query = NoQuery
    /\ resolved = NotResolved
    /\ cwd \in WorkingDirs
    /\ \/ mode = "project" /\ todo = <<"A">>
       \/ mode = "solution" /\ todo \in Solutions
    /\ call = None
    /\ ret = NoRet
    /\ stack = <<>>
    /\ processed_projects = <<>>
    /\ manifest = <<>>
    /\ cmake_files = <<>>
    /\ status = "running"
    /\ diag = NoDiag
    /\ bodyCount = <<>>
    /\ resolveCalls = <<>>

Running == status = "running"

\* main / the loop of process_solution: the next call of process_project
DriverCall ==
    /\ Running /\ stack = <<>> /\ call = None /\ ret = NoRet /\ todo # <<>>
    /\ call' = Head(todo)
    /\ todo' = Tail(todo)
    /\ UNCHANGED <<tp, outcome, query, resolved, cwd, mode, ret, stack, processed_projects, manifest,
                   cmake_files, status, diag, bodyCount, resolveCalls>>

\* The call returned to the driver; after the last one the run ends (process_solution
\* writes the root CMakeLists.txt).
DriverReturn ==
    /\ Running /\ stack = <<>> /\ ret # NoRet
    /\ ret' = NoRet
    /\ status' = IF todo = <<>> THEN "done" ELSE "running"
    /\ UNCHANGED <<tp, outcome, query, resolved, cwd, mode, todo, call, stack, processed_projects,
                   manifest, cmake_files, diag, bodyCount, resolveCalls>>

(***************************************************************************)
(* process_project                                                         *)
(***************************************************************************)
\* Project.json not found in project_dir: sys.exit(1)
ProjectJsonMissing ==
    /\ Running /\ call # None
    /\ ~DirOf(call).hasProjectJson
    /\ status' = "exit1"
    /\ diag' = [kind |-> "project_json_not_found", what |-> <<call>>]
    /\ UNCHANGED <<tp, outcome, query, resolved, cwd, mode, todo, call, ret, stack, processed_projects,
                   manifest, cmake_files, bodyCount, resolveCalls>>

\* The manifest is in processed_projects: return the cached value.
CacheHit ==
    /\ Running /\ call # None
    /\ DirOf(call).hasProjectJson
    /\ IsProcessed(call)
    /\ ret' = [returned |-> TRUE, of |-> call, from_cache |-> TRUE,
               primary_target |-> processed_projects[call].primary_target,
               dll_copy_dirs |-> processed_projects[call].dll_copy_dirs]
    /\ call' = None
    /\ UNCHANGED <<tp, outcome, query, resolved, cwd, mode, todo, stack, processed_projects, manifest,
                   cmake_files, status, diag, bodyCount, resolveCalls>>

\* The manifest is cached, with no DLL directories yet, before its dependencies
\* are processed.
CacheBeforeBody(cache, p, primary_target) ==
    (p :> [primary_target |-> primary_target, dll_copy_dirs |-> <<>>]) @@ cache

\* Nothing is cached when the body starts: "just proceed and cache at end".
CacheOnEntry(cache, p, primary_target) == cache

\* The body starts: load_json, data["name"], the primary target and the wildcard
\* pre-processing.  A manifest without a name raises KeyError.
BeginProject ==
    /\ Running /\ call # None
    /\ DirOf(call).hasProjectJson
    /\ ~IsProcessed(call)
    /\ Len(stack) < MaxCallDepth
    /\ \E data \in (IF call \in DOMAIN manifest THEN {manifest[call]} ELSE ManifestsOf(call)) :
         /\ manifest' = (call :> data) @@ manifest
         /\ bodyCount' = Inc(bodyCount, call)
         /\ IF ~data.hasName
            THEN /\ status' = "crash"
                 /\ diag' = [kind |-> "KeyError", what |-> <<call>>]
                 /\ UNCHANGED <<call, stack, processed_projects>>
            ELSE /\ processed_projects' =
                      CacheOnEntry(processed_projects, call, PrimaryTarget(call, data))
                 /\ \E all_deps \in AllDeps(data.dependencies, cwd) :
                      stack' = Append(stack,
                          [project_dir |-> call, data |-> data, all_deps |-> all_deps,
                           i |-> 1, dep_cmake_cmds |-> <<>>, valid_deps_targets |-> <<>>,
                           dll_copy_dirs |-> <<>>, awaiting |-> FALSE,
                           pending |-> NoPending])
                 /\ call' = None
                 /\ UNCHANGED <<status, diag>>
    /\ UNCHANGED <<tp, outcome, query, resolved, cwd, mode, todo, ret, cmake_files,
                   resolveCalls>>

\* The nested call finds no room on the interpreter's stack: RecursionError, which
\* nothing catches.
RecursionOverflow ==
    /\ Running /\ call # None
    /\ DirOf(call).hasProjectJson
    /\ ~IsProcessed(call)
    /\ Len(stack) >= MaxCallDepth
    /\ status' = "crash"
    /\ diag' = [kind |-> "RecursionError", what |-> <<call>>]
    /\ UNCHANGED <<tp, outcome, query, resolved, cwd, mode, todo, call, ret, stack,
                   processed_projects, manifest, cmake_files, bodyCount, resolveCalls>>

\* The directive one accepted dependency adds to dep_cmake_cmds.
Directive(idx, dep, method, dep_name, abs_dep_path, location, dep_target) ==
    [idx |-> idx, dep |-> dep, method |-> method, name |-> dep_name,
     path |-> abs_dep_path, location |-> location, target |-> dep_target]

\* The link target a dependency of this method adds to valid_deps_targets.
LinkTarget(idx, method, dep_name) ==
    [idx |-> idx,
     link |-> CASE method = "CONFIG" -> <<"$<IF:LIBRARIES>">> \o dep_name
                [] method = "ROOT" -> <<"${">> \o dep_name \o <<"_LIBRARIES}">>
                [] OTHER -> dep_name]

\* The directive is put in front of the earlier ones.
PrependCmd(cmds, d) == <<d>> \o cmds

\* dep_cmake_cmds.append / valid_deps_targets.append
AppendCmd(cmds, d) == Append(cmds, d)

AppendTarget(targets, t) == Append(targets, t)

\* The self-reference test is missing.
NeverSelfReference(abs_dep_path, project_dir) == FALSE

\* if abs_dep_path == project_dir
IsSelfReference(abs_dep_path, project_dir) == abs_dep_path = project_dir

\* The unclassified dependency is linked by its name before it is skipped.
LinkUnknown(f, dlls, dep_name) ==
    [f EXCEPT !.i = @ + 1, !.dll_copy_dirs = dlls,
              !.valid_deps_targets = AppendTarget(@, LinkTarget(f.i, "UNKNOWN", dep_name))]

\* else: warning "Could not determine how to import dependency"; continue
SkipUnknown(f, dlls, dep_name) == [f EXCEPT !.i = @ + 1, !.dll_copy_dirs = dlls]

\* One pass of the loop over all_deps, up to the recursive call for a PROJECT.
ProcessDep ==
    /\ Running /\ stack # <<>> /\ call = None /\ ret = NoRet
    /\ ~Top.awaiting
    /\ Top.i <= Len(Top.all_deps)
    /\ LET f == Top
           project_dir == f.project_dir
           dep == normpath(expand_env_vars(expand_env_vars(f.all_deps[f.i])))
       IN  /\ resolveCalls' = Inc(resolveCalls, project_dir)
           /\ \E r \in resolve_dependency(dep, project_dir) :
                IF Len(r) # 4
                THEN \* abs_dep_path, method, location, pkg_name = <three values>
                     /\ status' = "crash"
                     /\ diag' = [kind |-> "ValueError", what |-> dep]
                     /\ UNCHANGED <<stack, call>>
                ELSE IF r[1] = None
                THEN /\ status' = "exit1"
                     /\ diag' = [kind |-> "dependency_not_found", what |-> dep]
                     /\ UNCHANGED <<stack, call>>
                ELSE IF IsSelfReference(r[1], project_dir)
                THEN \* Skipping self-referential dependency
                     /\ stack' = SetTop([f EXCEPT !.i = @ + 1])
                     /\ UNCHANGED <<status, diag, call>>
                ELSE LET abs_dep_path == r[1]
                         method == r[2]
                         dep_name == r[4]
                         dlls == f.dll_copy_dirs \o ProbeDlls(abs_dep_path)
                     IN  IF method \in {"MODULE", "CONFIG", "SOURCE", "ROOT"}
                         THEN /\ stack' = SetTop([f EXCEPT
                                    !.i = @ + 1,
                                    !.dll_copy_dirs = dlls,
                                    !.dep_cmake_cmds = AppendCmd(@,
                                        Directive(f.i, dep, method, dep_name,
                                                  abs_dep_path, r[3], NoTarget)),
                                    !.valid_deps_targets = AppendTarget(@,
                                        LinkTarget(f.i, method, dep_name))])
                              /\ UNCHANGED <<status, diag, call>>
                         ELSE IF method = "PROJECT"
                         THEN /\ stack' = SetTop([f EXCEPT
                                    !.dll_copy_dirs = dlls,
                                    !.awaiting = TRUE,
                                    !.pending = [method |-> method, dep |-> dep,
                                                 name |-> dep_name,
                                                 path |-> abs_dep_path]])
                              /\ call' = abs_dep_path
                              /\ UNCHANGED <<status, diag>>
                         ELSE \* Could not determine how to import: skipping
                              /\ stack' = SetTop(SkipUnknown(f, dlls, dep_name))
                              /\ UNCHANGED <<status, diag, call>>
    /\ UNCHANGED <<tp, outcome, query, resolved, cwd, mode, todo, ret, processed_projects, manifest,
                   cmake_files, bodyCount>>

\* The child's DLL directories are not taken over.
NoBubbleUp(dll_copy_dirs, child_dll_dirs) == dll_copy_dirs

\* dll_copy_dirs.extend(child_dll_dirs)
BubbleUp(dll_copy_dirs, child_dll_dirs) == dll_copy_dirs \o child_dll_dirs

\* The recursive call returned: bubble up its DLL directories, add its directive
\* and, when it has a primary target, its link target.
ReturnToParent ==
    /\ Running /\ stack # <<>> /\ call = None /\ ret # NoRet
    /\ Top.awaiting
    /\ LET f == Top
           dep_target == ret.primary_target
       IN  stack' = SetTop([f EXCEPT
               !.i = @ + 1,
               !.awaiting = FALSE,
               !.pending = NoPending,
               !.dll_copy_dirs = BubbleUp(@, ret.dll_copy_dirs),
               !.dep_cmake_cmds = AppendCmd(@,
                   Directive(f.i, f.pending.dep, "PROJECT", f.pending.name,
                             f.pending.path, 0, dep_target)),
               !.valid_deps_targets =
                   IF dep_target # NoTarget
                   THEN AppendTarget(@, [idx |-> f.i, link |-> dep_target])
                   ELSE @])
    /\ ret' = NoRet
    /\ UNCHANGED <<tp, outcome, query, resolved, cwd, mode, todo, call, processed_projects, manifest,
                   cmake_files, status, diag, bodyCount, resolveCalls>>

LoopDone ==
    /\ Running /\ stack # <<>> /\ call = None /\ ret = NoRet
    /\ ~Top.awaiting
    /\ Top.i > Len(Top.all_deps)

\* Executable enabled but no entry_file specified: sys.exit(1), after the loop.
EntryFileMissing ==
    /\ LoopDone
    /\ Top.data.compile_exec /\ ~Top.data.entry_file
    /\ status' = "exit1"
    /\ diag' = [kind |-> "no_entry_file", what |-> <<Top.project_dir>>]
    /\ UNCHANGED <<tp, outcome, query, resolved, cwd, mode, todo, call, ret, stack, processed_projects,
                   manifest, cmake_files, bodyCount, resolveCalls>>

\* self.processed_projects[project_json_path] = (primary_target, dll_copy_dirs)
CacheResult(cache, p, value) == (p :> value) @@ cache

\* The body ends: write CMakeLists.txt, cache the result and return it.
FinishProject ==
    /\ LoopDone
    /\ ~(Top.data.compile_exec /\ ~Top.data.entry_file)
    /\ LET f == Top
           value == [primary_target |-> PrimaryTarget(f.project_dir, f.data),
                     dll_copy_dirs |-> f.dll_copy_dirs]
       IN  /\ cmake_files' = (f.project_dir :>
                                [dep_cmake_cmds |-> f.dep_cmake_cmds,
                                 valid_deps_targets |-> f.valid_deps_targets,
                                 all_deps |-> f.all_deps]) @@ cmake_files
           /\ processed_projects' = CacheResult(processed_projects, f.project_dir, value)
           /\ ret' = [returned |-> TRUE, of |-> f.project_dir, from_cache |-> FALSE,
                      primary_target |-> value.primary_target,
                      dll_copy_dirs |-> value.dll_copy_dirs]
    /\ stack' = SubSeq(stack, 1, Len(stack) - 1)
    /\ UNCHANGED <<tp, outcome, query, resolved, cwd, mode, todo, call, manifest, status, diag,
                   bodyCount, resolveCalls>>

\* The manifests of a run whose input project declares placeholder references:
\* every dependency of A is one placeholder, B is a library without dependencies.
PlaceholderRefs ==
    { <<c>> : c \in {"${M}", "%M%", "${U}", "%U%", "${N2}", "${N3}", "${N4}", "${P}",
                     "%Q%", "${R}"} }

ExpandManifests ==
    { ("A" :> [hasName |-> sh.hasName, compile_lib |-> sh.compile_lib,
               compile_exec |-> sh.compile_exec, entry_file |-> sh.entry_file,
               dependencies |-> deps])
      @@ ("B" :> [hasName |-> TRUE, compile_lib |-> TRUE, compile_exec |-> FALSE,
                  entry_file |-> FALSE, dependencies |-> <<>>]) :
        sh \in {Exe, ExeNoEntry}, deps \in SeqsUpTo(PlaceholderRefs, MaxDeps) }

InitExpand ==
    /\ tp = PlainDir("None", "None")
    /\ outcome = NotRun
    /\ query = NoQuery
    /\ resolved = NotResolved
    /\ cwd \in WorkingDirs
    /\ \/ mode = "project" /\ todo = <<"A">>
       \/ mode = "solution" /\ todo \in Solutions
    /\ call = None
    /\ ret = NoRet
    /\ stack = <<>>
    /\ processed_projects = <<>>
    /\ manifest \in ExpandManifests
    /\ cmake_files = <<>>
    /\ status = "running"
    /\ diag = NoDiag
    /\ bodyCount = <<>>
    /\ resolveCalls = <<>>

Next ==
    \/ DriverCall
    \/ DriverReturn
    \/ ProjectJsonMissing
    \/ CacheHit
    \/ BeginProject
    \/ ProcessDep
    \/ ReturnToParent
    \/ EntryFileMissing
    \/ FinishProject

Spec == Init /\ [][Next]_vars

SpecExpand == InitExpand /\ [][Next]_vars

(***************************************************************************)
(* Runs over manifests that may depend on each other in a cycle.           *)
(***************************************************************************)
CycleRefsOf(p) ==
    CASE p = "A" -> SeqsUpTo({ <<"..", "B">>, <<"mod">>, <<"..", "..", "libs", "C">> }, MaxDeps)
      [] p = "B" -> { <<>>,
                      << <<"..", "A">> >>,
                      << <<"cfg">>, <<"..", "A">> >>,
                      << <<"..", "..", "libs", "C">>, <<"..", "A">> >> }
      [] p = "C" -> { << <<"root">> >>,
                      << <<"..", "..", "proj", "A">> >> }
      [] OTHER -> {}

CycleManifests ==
    { ("A" :> [hasName |-> TRUE, compile_lib |-> FALSE, compile_exec |-> TRUE,
               entry_file |-> entry, dependencies |-> a])
      @@ ("B" :> [hasName |-> TRUE, compile_lib |-> TRUE, compile_exec |-> FALSE,
                  entry_file |-> FALSE, dependencies |-> b])
      @@ ("C" :> [hasName |-> TRUE, compile_lib |-> TRUE, compile_exec |-> FALSE,
                  entry_file |-> FALSE, dependencies |-> c]) :
        entry \in BOOLEAN, a \in CycleRefsOf("A"), b \in CycleRefsOf("B"),
        c \in CycleRefsOf("C") }

InitCycle ==
    /\ tp = PlainDir("None", "None")
    /\ outcome = NotRun
    /\ query = NoQuery
    /\ resolved = NotResolved
    /\ cwd \in WorkingDirs
    /\ \/ mode = "project" /\ todo = <<"A">>
       \/ mode = "solution" /\ todo \in Solutions
    /\ call = None
    /\ ret = NoRet
    /\ stack = <<>>
    /\ processed_projects = <<>>
    /\ manifest \in CycleManifests
    /\ cmake_files = <<>>
    /\ status = "running"
    /\ diag = NoDiag
    /\ bodyCount = <<>>
    /\ resolveCalls = <<>>

NextCycle ==
    \/ Next
    \/ RecursionOverflow

SpecCycle == InitCycle /\ [][NextCycle]_vars

(***************************************************************************)
(* Claims about process_project, checked under Spec.                       *)
(***************************************************************************)
Frames == Range(stack)

Failed == status \in {"exit1", "crash"}

\* Every entry all_deps can hold, and what each resolves to for each project.
RawStrings == RefsOfA \cup UNION { Range(deps) : deps \in DepsOf("B") \cup DepsOf("C") }

DepStrings ==
    UNION { Range(h) : h \in UNION { ExpandRawDep(raw, wd) :
                                       raw \in RawStrings, wd \in WorkingDirs } }

DepInfo ==
    [p \in Projects |->
        [d \in DepStrings |->
            LET dep == normpath(expand_env_vars(expand_env_vars(d)))
            IN  [dep |-> dep,
                 tuple |-> CHOOSE r \in resolve_dependency(dep, p) : TRUE]]]

\* What the k-th entry of all_deps resolves to for the project that declares it.
DepString(project_dir, all_deps, k) == DepInfo[project_dir][all_deps[k]].dep

DepTuple(project_dir, all_deps, k) == DepInfo[project_dir][all_deps[k]].tuple

Resolvable(project_dir, all_deps, k) == Len(DepTuple(project_dir, all_deps, k)) = 4

SelfRef(project_dir, all_deps, k) ==
    /\ Resolvable(project_dir, all_deps, k)
    /\ DepTuple(project_dir, all_deps, k)[1] = project_dir

MethodAt(project_dir, all_deps, k) ==
    IF Resolvable(project_dir, all_deps, k) /\ ~SelfRef(project_dir, all_deps, k)
    THEN DepTuple(project_dir, all_deps, k)[2]
    ELSE "None"

Accepted(project_dir, all_deps, k) ==
    MethodAt(project_dir, all_deps, k) \in {"PROJECT", "MODULE", "CONFIG", "SOURCE", "ROOT"}

Indexes(entries) == { entries[a].idx : a \in DOMAIN entries }

\* C1: over an acyclic manifest graph the body of process_project runs at most once
\* per manifest, every value returned for a manifest is the one cached under its
\* path, and a cached value is never changed or removed.
C1_ResolvedExactlyOnce ==
    /\ [](/\ \A p \in DOMAIN bodyCount : bodyCount[p] <= 1
          /\ ret # NoRet =>
               /\ ret.of \in DOMAIN processed_projects
               /\ processed_projects[ret.of].primary_target = ret.primary_target
               /\ processed_projects[ret.of].dll_copy_dirs = ret.dll_copy_dirs)
    /\ [][\A p \in DOMAIN processed_projects :
            /\ p \in DOMAIN processed_projects'
            /\ processed_projects'[p] = processed_projects[p]]_vars

\* C1 witness: in a run entered through process_project, A asks for C after B has
\* asked for it: the second call returns the cached value, which holds DLL
\* directories, and the bodies of B and C have run once.
C1_Witness ==
    /\ mode = "project"
    /\ ret # NoRet
    /\ ret.from_cache
    /\ ret.of = "C"
    /\ Len(stack) = 1
    /\ Top.awaiting
    /\ ret.dll_copy_dirs # <<>>
    /\ "B" \in DOMAIN processed_projects
    /\ bodyCount["B"] = 1
    /\ bodyCount["C"] = 1

\* C2 (as claimed): once a dependency of a manifest was classified UNKNOWN the run
\* has failed: the loop does not go on and no descriptor is cached for the manifest.
C2_UnknownIsFatal ==
    /\ \A f \in Frames : \A k \in 1..(f.i - 1) :
          MethodAt(f.project_dir, f.all_deps, k) = "UNKNOWN" => Failed
    /\ \A p \in DOMAIN cmake_files : \A k \in DOMAIN cmake_files[p].all_deps :
          MethodAt(p, cmake_files[p].all_deps, k) # "UNKNOWN"

\* C2 (amended): a dependency classified UNKNOWN is skipped: it adds no import
\* directive and no link target, the run does not fail at it, and the loop goes on
\* with the next dependency.
C2_UnknownIsSkipped ==
    /\ [](\A f \in Frames : \A k \in 1..Len(f.all_deps) :
            MethodAt(f.project_dir, f.all_deps, k) = "UNKNOWN" =>
                /\ k \notin Indexes(f.dep_cmake_cmds)
                /\ k \notin Indexes(f.valid_deps_targets)
                /\ ~(Failed /\ f = Top /\ f.i = k))
    /\ [][(/\ Running /\ stack # <<>> /\ call = None /\ ret = NoRet
           /\ ~Top.awaiting /\ Top.i <= Len(Top.all_deps)
           /\ MethodAt(Top.project_dir, Top.all_deps, Top.i) = "UNKNOWN")
          => (/\ status' = "running"
              /\ Len(stack')  = Len(stack)
              /\ Top'.i = Top.i + 1
              /\ Top'.dep_cmake_cmds = Top.dep_cmake_cmds
              /\ Top'.valid_deps_targets = Top.valid_deps_targets)]_vars

\* C2 witness: a manifest with an UNKNOWN dependency followed by an accepted one
\* was completed and cached, with the directive of the accepted one.
C2_Witness ==
    \E p \in DOMAIN processed_projects :
        /\ Len(cmake_files[p].all_deps) = 2
        /\ MethodAt(p, cmake_files[p].all_deps, 1) = "UNKNOWN"
        /\ Indexes(cmake_files[p].dep_cmake_cmds) = {2}

\* C3 (as claimed): when a dependency names no existing directory the run ends with
\* sys.exit(1) after the diagnostic "Dependency '<dep>' not found" for that dependency.
C3_MissingDependencyDiagnosed ==
    \A f \in Frames : \A k \in 1..Len(f.all_deps) :
        (k <= f.i /\ (k < f.i \/ Failed) /\ ~Resolvable(f.project_dir, f.all_deps, k)) =>
            /\ status = "exit1"
            /\ diag = [kind |-> "dependency_not_found", what |-> DepString(f.project_dir, f.all_deps, k)]
            /\ f.project_dir \notin DOMAIN processed_projects

\* C4: a dependency that resolves to the project's own directory adds no import
\* directive and no link target, is never the cause of a recursive call or of a
\* failure, and the loop goes on behind it.
C4_SelfReferenceDropped ==
    \A f \in Frames : \A k \in 1..Len(f.all_deps) :
        SelfRef(f.project_dir, f.all_deps, k) =>
            /\ k \notin Indexes(f.dep_cmake_cmds)
            /\ k \notin Indexes(f.valid_deps_targets)
            /\ ~(f.awaiting /\ f.i = k)
            /\ call # None => ~(f = Top /\ f.i = k)
            /\ ~(Failed /\ f = Top /\ f.i = k)

\* C4 witness: the wildcard "../*" listed the project itself first; it was skipped
\* and the project listed after it got its directive.
C4_Witness ==
    \E f \in Frames :
        /\ f.data.dependencies = << <<"..", "*">> >>
        /\ Len(f.all_deps) = 2
        /\ SelfRef(f.project_dir, f.all_deps, 1)
        /\ Indexes(f.dep_cmake_cmds) = {2}
        /\ f.i = 3

\* The directives and link targets built from the first upto entries of all_deps.
InDeclarationOrder(project_dir, all_deps, cmds, targets, upto) ==
    /\ \A a, b \in DOMAIN cmds : a < b => cmds[a].idx < cmds[b].idx
    /\ Indexes(cmds) = { k \in 1..upto : Accepted(project_dir, all_deps, k) }
    /\ \A a \in DOMAIN cmds :
          /\ cmds[a].dep = DepString(project_dir, all_deps, cmds[a].idx)
          /\ cmds[a].method = MethodAt(project_dir, all_deps, cmds[a].idx)
          /\ cmds[a].path = DepTuple(project_dir, all_deps, cmds[a].idx)[1]
    /\ \A a, b \in DOMAIN targets : a < b => targets[a].idx < targets[b].idx
    /\ Indexes(targets) \subseteq Indexes(cmds)
    /\ \A k \in Indexes(cmds) :
          MethodAt(project_dir, all_deps, k) # "PROJECT" => k \in Indexes(targets)

\* C5: the import directives and link targets of a manifest stand in the order of
\* the dependencies that produced them, one directive per accepted dependency, while
\* the manifest is processed (whatever nested calls and cache hits happen) and in
\* the CMakeLists.txt written for it; without a wildcard the dependencies are the
\* declared strings, expanded, in the declared order.
C5_DeclarationOrderPreserved ==
    /\ \A f \in Frames :
          /\ InDeclarationOrder(f.project_dir, f.all_deps, f.dep_cmake_cmds,
                                f.valid_deps_targets, f.i - 1)
          /\ (\A j \in DOMAIN f.data.dependencies :
                 f.data.dependencies[j][Len(f.data.dependencies[j])] # "*")
             => f.all_deps = [j \in DOMAIN f.data.dependencies |->
                                 expand_env_vars(f.data.dependencies[j])]
    /\ \A p \in DOMAIN cmake_files :
          InDeclarationOrder(p, cmake_files[p].all_deps, cmake_files[p].dep_cmake_cmds,
                             cmake_files[p].valid_deps_targets,
                             Len(cmake_files[p].all_deps))

\* C5 witness: the CMakeLists.txt of a manifest holds two directives in declaration
\* order, the first for a nested project that was processed in between and the
\* second for a project served from the cache.
C5_Witness ==
    /\ "A" \in DOMAIN cmake_files
    /\ Len(cmake_files["A"].dep_cmake_cmds) = 2
    /\ cmake_files["A"].dep_cmake_cmds[1].path = "B"
    /\ cmake_files["A"].dep_cmake_cmds[2].path = "C"
    /\ \E k \in DOMAIN cmake_files["B"].all_deps :
          MethodAt("B", cmake_files["B"].all_deps, k) = "PROJECT"

\* The manifests a processed project depends on directly, as PROJECT dependencies.
ProjectDeps(p) ==
    { DepTuple(p, cmake_files[p].all_deps, k)[1] :
        k \in { j \in DOMAIN cmake_files[p].all_deps :
                  MethodAt(p, cmake_files[p].all_deps, j) = "PROJECT" } }

RECURSIVE ReachableWithin(_, _)
ReachableWithin(p, n) ==
    IF n = 0 \/ p \notin DOMAIN cmake_files THEN {p}
    ELSE {p} \cup UNION { ReachableWithin(q, n - 1) : q \in ProjectDeps(p) }

Reachable(p) == ReachableWithin(p, Cardinality(Projects))

\* The DLL directories the probe finds for the dependencies of a processed project.
OwnArtifacts(p) ==
    UNION { Range(ProbeDlls(DepTuple(p, cmake_files[p].all_deps, k)[1])) :
              k \in { j \in DOMAIN cmake_files[p].all_deps :
                        MethodAt(p, cmake_files[p].all_deps, j) # "None" } }

\* C9: the DLL directories cached for a processed manifest contain those of every
\* manifest reachable from it through PROJECT dependencies: the ones cached for it
\* and the ones probed for its own dependencies.
C9_ArtifactsAreTransitive ==
    \A p \in DOMAIN processed_projects : \A q \in Reachable(p) :
        /\ q \in DOMAIN processed_projects
        /\ Range(processed_projects[q].dll_copy_dirs)
               \subseteq Range(processed_projects[p].dll_copy_dirs)
        /\ OwnArtifacts(q) \subseteq Range(processed_projects[p].dll_copy_dirs)

\* C9 witness: A reaches C only through B, B was served from the cache when A asked
\* for it, and the DLL directory probed for C's dependency is cached for A.
C9_Witness ==
    /\ mode = "solution"
    /\ {"A", "B", "C"} \subseteq DOMAIN processed_projects
    /\ ProjectDeps("A") = {"B"}
    /\ ProjectDeps("B") = {"C"}
    /\ OwnArtifacts("C") # {}
    /\ OwnArtifacts("C") \subseteq Range(processed_projects["A"].dll_copy_dirs)

\* C10 (as claimed): when the run fails on a malformed manifest (no name, or an
\* executable without entry_file) no dependency of that manifest has been resolved
\* and no nested manifest has been processed for it.
C10_MalformedFailsBeforeGraphWork ==
    (Failed /\ diag.kind \in {"KeyError", "no_entry_file"}) =>
        /\ diag.what[1] \notin DOMAIN resolveCalls
        /\ \A f \in Frames : f.project_dir = diag.what[1] => f.i = 1

\* C12 (as claimed): a reference D/* stands for the immediate subdirectories of the
\* directory D of the requesting project, wherever the tool was started: all_deps
\* holds one entry per subdirectory of the project's D (none when D is missing or
\* has no subdirectory, no entry for a file in D), each resolving to that
\* subdirectory, next to the entries of the references without a wildcard.
C12_WildcardFanOut ==
    \A f \in Frames :
        \E expected \in AllDeps(f.data.dependencies, f.project_dir) :
            /\ Len(f.all_deps) = Len(expected)
            /\ \A k \in DOMAIN expected :
                  /\ f.all_deps[k] = expected[k]
                  /\ f.all_deps[k] \notin { expand_env_vars(d) :
                                               d \in Range(f.data.dependencies) } =>
                        /\ Resolvable(f.project_dir, f.all_deps, k)
                        /\ DepTuple(f.project_dir, f.all_deps, k)[1]
                               = Locate(f.project_dir, expected[k])

\* The DLL directories the accepted dependencies of a processed project account
\* for: the first hit of the probe in each, and the directories of the descriptor
\* of each PROJECT dependency.
AcceptedArtifacts(p) ==
    UNION { Range(ProbeDlls(DepTuple(p, cmake_files[p].all_deps, k)[1]))
            \cup (IF MethodAt(p, cmake_files[p].all_deps, k) = "PROJECT"
                  THEN Range(processed_projects[DepTuple(p, cmake_files[p].all_deps, k)[1]]
                                 .dll_copy_dirs)
                  ELSE {}) :
              k \in { j \in DOMAIN cmake_files[p].all_deps :
                        Accepted(p, cmake_files[p].all_deps, j) } }

\* C15 (as claimed): the DLL directories cached for a project come only from its
\* accepted dependencies; a dependency that is skipped (self-referential or
\* UNKNOWN) adds none, to the project or to a project that depends on it.
C15_ArtifactsOnlyFromAccepted ==
    \A p \in DOMAIN processed_projects :
        Range(processed_projects[p].dll_copy_dirs) \subseteq AcceptedArtifacts(p)

(***************************************************************************)
(* Claims about the expansion of placeholders, checked under SpecExpand.   *)
(***************************************************************************)
\* The references process_project has handed to resolve_dependency, as far as the
\* state records them: in a directive, in a pending recursive call, or in the
\* failure they ended with.
HandedRefs ==
    UNION { { f.dep_cmake_cmds[a].dep : a \in DOMAIN f.dep_cmake_cmds } : f \in Frames }
    \cup { f.pending.dep : f \in { g \in Frames : g.awaiting } }
    \cup (IF diag.kind \in {"ValueError", "dependency_not_found"} THEN {diag.what} ELSE {})

IsPlaceholder(c) == DollarName(c) # None \/ PercentName(c) # None

\* C11 (as claimed): every reference handed to resolve_dependency is a fixed point
\* of expand_env_vars, whatever placeholders the values of the variables hold, and
\* holds no placeholder of an unset variable.
C11_HandedRefIsFixedPoint ==
    \A h \in HandedRefs :
        /\ expand_env_vars(h) = h
        /\ \A i \in DOMAIN h :
              IsPlaceholder(h[i]) => {DollarName(h[i]), PercentName(h[i])} \cap EnvNames # {}

(***************************************************************************)
(* Claims about cyclic manifest graphs, checked under SpecCycle.           *)
(***************************************************************************)
\* The manifests the manifest of p names as PROJECT dependencies.
ManifestEdges(p) ==
    IF p \notin DOMAIN manifest THEN {}
    ELSE { r[1] : r \in { t \in UNION { resolve_dependency(normpath(expand_env_vars(d)), p) :
                                           d \in Range(manifest[p].dependencies) } :
                             Len(t) = 4 /\ t[2] = "PROJECT" /\ t[1] # p } }

RECURSIVE EdgesWithin(_, _)
EdgesWithin(p, n) ==
    IF n = 0 THEN {}
    ELSE ManifestEdges(p) \cup UNION { EdgesWithin(q, n - 1) : q \in ManifestEdges(p) }

\* p lies on a cycle of the manifest graph.
OnCycle(p) == p \in EdgesWithin(p, Cardinality(Projects))

\* C14: a manifest on a cycle of PROJECT dependencies is never cached, written or
\* returned, and a run that has entered its body never ends normally; its frame
\* stays on the stack of nested calls for good; and every call of it, finding
\* nothing cached, nests one more body, until the interpreter has no room for it.
C14_CycleNeverCompletes ==
    /\ [](\A p \in Projects : OnCycle(p) =>
             /\ p \notin DOMAIN processed_projects
             /\ p \notin DOMAIN cmake_files
             /\ ret # NoRet => ret.of # p
             /\ p \in DOMAIN bodyCount => status # "done")
    /\ [][\A k \in DOMAIN stack : OnCycle(stack[k].project_dir) =>
             /\ k \in DOMAIN stack'
             /\ stack'[k].project_dir = stack[k].project_dir]_vars
    /\ [][(Running /\ call # None /\ OnCycle(call)) =>
             \/ Len(stack') = Len(stack) + 1 /\ stack'[Len(stack')].project_dir = call
             \/ Len(stack) >= MaxCallDepth /\ status' = "crash"]_vars

\* C14 witness: A and B name each other; the calls A, B, A, B are nested when the
\* next call of A fails with RecursionError, and nothing was cached.
C14_Witness ==
    /\ OnCycle("A") /\ "A" \in ManifestEdges("B") /\ "B" \in ManifestEdges("A")
    /\ Len(stack) = MaxCallDepth
    /\ \A k \in DOMAIN stack :
          stack[k].project_dir = (IF k % 2 = 1 THEN "A" ELSE "B")
    /\ status = "crash"
    /\ diag = [kind |-> "RecursionError", what |-> <<"A">>]
    /\ processed_projects = <<>>

====
